---- MODULE Spec2Model ----
(***************************************************************************)
(* Retrieval ranking pipeline of the PDF RAG chat assistant:               *)
(* RAGEngine.query -> hybrid_search -> VectorStore.similarity_search       *)
(* (RPC search with a linear-scan fallback) -> ReRanker.rerank -> answer   *)
(* generation.                                                             *)
(*                                                                         *)
(* Text is a sequence of one-character strings.  Scores are exact          *)
(* rationals held as integers: similarity and keyword_score in units of    *)
(* 1/Scale, hybrid_score in units of 1/(WeightScale * Scale).  Floating    *)
(* point rounding is not modelled.                                         *)
(***************************************************************************)
EXTENDS Integers, Sequences, FiniteSets, TLC

VARIABLES
    model,            \* ReRanker.model: "None" or "Loaded"
    ce,               \* the loaded cross-encoder: content -> relevance score
    store,            \* rows of the "documents" table, in table order
    pc,               \* position of the running query
    question,         \* query(): question
    top_k,            \* query(): top_k
    hs_top_k,         \* hybrid_search(): top_k after line 31
    requested,        \* similarity_search(): top_k it was called with
    query_embedding,  \* similarity_search(): query_embedding
    semantic_results, \* hybrid_search(): semantic_results
    hybrid_sorted,    \* hybrid_search(): scored_results after the sort
    documents,        \* ReRanker.rerank(): documents (sorted in place)
    relevant_docs,    \* query(): relevant_docs
    rerank_status,    \* how the last rerank call ended
    calls,            \* stages invoked by the running query
    result,           \* what query() returned or raised
    other,            \* locals of another invocation of query: a queued
                      \* one, or an earlier one kept for comparison
    call,             \* a direct call of a function, or the last run of
                      \* index_documents
    messages          \* app.py: st.session_state.messages

vars == <<model, ce, store, pc, question, top_k, hs_top_k, requested,
          query_embedding, semantic_results, hybrid_sorted, documents,
          relevant_docs, rerank_status, calls, result, other, call, messages>>

-----------------------------------------------------------------------------
(* Bounds of the model *)

MaxTopK == 2

\* direct calls of calculate_keyword_score: length of the text, number of keywords
MaxTextLen == 4
MaxKeywords == 2

\* length of the chat history
MaxMessages == 4

\* number of runs of index_documents
MaxRuns == 2

\* direct calls of extract_keywords: number of words of the query
MaxQueryWords == 3

\* direct calls of the scoring steps of hybrid_search: size of the pool
MaxPool == 3

-----------------------------------------------------------------------------
(* Units *)

\* similarity and keyword_score are multiples of 1/Scale; Scale is divisible
\* by every keyword count and every product of vector magnitudes used below.
Scale == 2 * 2 * 3 * 5 * 5

\* keyword_boost is a multiple of 1/WeightScale.
WeightScale == 2 * 5

-----------------------------------------------------------------------------
(* Python built-ins on sequences *)

RECURSIVE SumSeq(_)
SumSeq(s) == IF s = <<>> THEN 0 ELSE Head(s) + SumSeq(Tail(s))

Min(a, b) == IF a <= b THEN a ELSE b

\* s[:n]
Prefix(s, n) == IF n <= 0 THEN <<>> ELSE SubSeq(s, 1, Min(n, Len(s)))

\* variant: equal keys come out in reverse order
SortDesc_ties_reversed(s, keys) ==
    LET before(i, j) == \/ keys[i] > keys[j]
                        \/ keys[i] = keys[j] /\ i > j
        rank(i) == 1 + Cardinality({j \in DOMAIN s : before(j, i)})
    IN  [p \in DOMAIN s |-> s[CHOOSE i \in DOMAIN s : rank(i) = p]]

\* list.sort(key=..., reverse=True): stable, descending by key; keys[i] is
\* the key of s[i], extracted before any element moves.
\* Element i moves to the position counting the elements that precede it.
SortDesc(s, keys) ==
    LET before(i, j) == \/ keys[i] > keys[j]
                        \/ keys[i] = keys[j] /\ i < j
        rank(i) == 1 + Cardinality({j \in DOMAIN s : before(j, i)})
    IN  [p \in DOMAIN s |-> s[CHOOSE i \in DOMAIN s : rank(i) = p]]

\* math.sqrt on the perfect squares that occur
Sqrt(n) == CHOOSE r \in 0..n : r * r <= n /\ (r + 1) * (r + 1) > n

-----------------------------------------------------------------------------
(* Python str methods *)

Upper == <<"A","B","C","D","E","F","G","H","I","J","K","L","M","N","O","P","Q","R","S","T","U","V","W","X","Y","Z">>
Lowered == <<"a","b","c","d","e","f","g","h","i","j","k","l","m","n","o","p","q","r","s","t","u","v","w","x","y","z">>

LowerChar(c) ==
    IF \E i \in DOMAIN Upper : Upper[i] = c
    THEN Lowered[CHOOSE i \in DOMAIN Upper : Upper[i] = c]
    ELSE c

\* str.lower()
Lower(s) == [i \in DOMAIN s |-> LowerChar(s[i])]

\* str.replace(c, '')
Remove(s, c) == SelectSeq(s, LAMBDA ch : ch # c)

IsSpace(c) == c \in {" ", "\t", "\n"}

\* str.split(): maximal runs of non-whitespace characters
RECURSIVE Split(_, _)
Split(s, word) ==
    IF s = <<>> THEN (IF word = <<>> THEN <<>> ELSE <<word>>)
    ELSE IF IsSpace(Head(s))
         THEN (IF word = <<>> THEN <<>> ELSE <<word>>) \o Split(Tail(s), <<>>)
         ELSE Split(Tail(s), Append(word, Head(s)))

\* str.strip()
RECURSIVE LStrip(_)
LStrip(s) == IF s # <<>> /\ IsSpace(Head(s)) THEN LStrip(Tail(s)) ELSE s

RECURSIVE RStrip(_)
RStrip(s) ==
    IF s # <<>> /\ IsSpace(s[Len(s)]) THEN RStrip(SubSeq(s, 1, Len(s) - 1)) ELSE s

Strip(s) == RStrip(LStrip(s))

StartsWith(s, sub) == Len(sub) <= Len(s) /\ SubSeq(s, 1, Len(sub)) = sub

\* str.count(sub): non-overlapping occurrences, scanning left to right
RECURSIVE Count(_, _)
Count(s, sub) ==
    IF sub = <<>> THEN Len(s) + 1
    ELSE IF Len(s) < Len(sub) THEN 0
    ELSE IF StartsWith(s, sub)
         THEN 1 + Count(SubSeq(s, Len(sub) + 1, Len(s)), sub)
         ELSE Count(Tail(s), sub)

-----------------------------------------------------------------------------
(* hybrid_search.py: keywords and lexical score *)

stopwords == {
    <<"l","e">>, <<"l","a">>, <<"l","e","s">>, <<"u","n">>, <<"u","n","e">>, <<"d","e","s">>,
    <<"d","e">>, <<"d","u">>, <<"à">>, <<"a","u">>, <<"a","u","x">>, <<"e","t">>, <<"o","u">>,
    <<"m","a","i","s">>, <<"d","o","n","c">>, <<"c","a","r">>, <<"n","i">>, <<"q","u","e">>,
    <<"q","u","i">>, <<"q","u","o","i">>, <<"d","o","n","t">>, <<"c","e">>, <<"c","e","t">>,
    <<"c","e","t","t","e">>, <<"c","e","s">>, <<"m","o","n">>, <<"t","o","n">>,
    <<"s","o","n">>, <<"m","a">>, <<"t","a">>, <<"s","a">>, <<"m","e","s">>, <<"t","e","s">>,
    <<"s","e","s">>, <<"n","o","t","r","e">>, <<"v","o","t","r","e">>, <<"l","e","u","r">>,
    <<"n","o","s">>, <<"v","o","s">>, <<"l","e","u","r","s">>, <<"j","e">>, <<"t","u">>,
    <<"i","l">>, <<"e","l","l","e">>, <<"o","n">>, <<"n","o","u","s">>, <<"v","o","u","s">>,
    <<"i","l","s">>, <<"e","l","l","e","s">>, <<"e","s","t">>, <<"s","o","n","t">>,
    <<"s","u","i","s">>, <<"s","o","m","m","e","s">>, <<"ê","t","e","s">>, <<"ê","t","r","e">>,
    <<"a","v","o","i","r">>, <<"a">>, <<"a","s">>, <<"q","u">>, <<"c">>, <<"d">>, <<"l">>,
    <<"s">>, <<"n">>, <<"m">>, <<"t">>, <<"y">>, <<"q","u","e">>, <<"q","u","o","i">>,
    <<"q","u","e","l">>, <<"q","u","e","l","l","e">>, <<"q","u","e","l","s">>,
    <<"q","u","e","l","l","e","s">>, <<"s","u","r">>, <<"s","o","u","s">>, <<"d","a","n","s">>,
    <<"p","a","r">>, <<"p","o","u","r">>, <<"a","v","e","c">>, <<"s","a","n","s">>
}

extract_keywords(query) ==
    LET words == Split(Remove(Remove(Lower(query), "?"), "!"), <<>>)
        keep(w) == Strip(w) # <<>> /\ Strip(w) \notin stopwords /\ Len(w) > 2
        kept == SelectSeq(words, keep)
    IN  [i \in DOMAIN kept |-> Strip(kept[i])]

\* variant: the score is not clamped to 1.0
calculate_keyword_score_unclamped(text, keywords) ==
    IF keywords = <<>> THEN 0
    ELSE (SumSeq([i \in DOMAIN keywords |-> Count(Lower(text), Lower(keywords[i]))]) * Scale)
             \div Len(keywords)

\* keyword_score in units of 1/Scale
calculate_keyword_score(text, keywords) ==
    IF keywords = <<>> THEN 0
    ELSE LET text_lower == Lower(text)
             total_matches ==
                 SumSeq([i \in DOMAIN keywords |-> Count(text_lower, Lower(keywords[i]))])
         IN  Min((total_matches * Scale) \div Len(keywords), Scale)

-----------------------------------------------------------------------------
(* Inputs: questions, passages, embeddings *)

QChatChien == <<"l","e"," ","C","h","a","t"," ","d","u"," ","c","h","i","e","n","?">>   \* "le Chat du chien?"
QEmpty == <<>>

Questions == {QChatChien, QEmpty}

TChat == <<"L","e"," ","c","h","a","t">>         \* "Le chat"
TChatChien == <<"c","h","a","t"," ","c","h","i","e","n">>    \* "chat chien"
TChien3 == <<"c","h","i","e","n"," ","c","h","i","e","n"," ","c","h","i","e","n">>       \* "chien chien chien"
TPdf == <<"p","d","f">>          \* "pdf"

\* What create_embedding returns for a question: a list of numbers.
QueryVectors == {<<3, 4>>, <<1, 0>>}

\* A value of the "embedding" column as the client hands it over:
\*   "null"  no embedding
\*   "list"  a list; the elements at the indexes of nonnumeric are not numbers
\*   "str"   a string; json.loads gives a list ("list"), some other JSON value
\*           ("other") or raises ("invalid")
\*   "other" neither a list nor a string
Null == [kind |-> "null"]
Vec(v) == [kind |-> "list", value |-> v, nonnumeric |-> {}]
BadVec(v, bad) == [kind |-> "list", value |-> v, nonnumeric |-> bad]
JsonVec(v) == [kind |-> "str", json |-> "list", value |-> v, nonnumeric |-> {}]
JsonOther == [kind |-> "str", json |-> "other"]
JsonInvalid == [kind |-> "str", json |-> "invalid"]
Other == [kind |-> "other"]

Meta(name, idx) ==
    [file_name |-> name, chunk_index |-> idx, file_hash |-> <<"hash", name>>]

Row(id, content, metadata, embedding) ==
    [id |-> id, content |-> content, metadata |-> metadata, embedding |-> embedding]

\* well-formed rows, as add_documents stores them
CorpusGood == <<
    Row(1, TPdf, Meta("a.pdf", 0), JsonVec(<<3, 4>>)),
    Row(2, TChat, Meta("a.pdf", 1), JsonVec(<<4, 3>>)),
    Row(3, TChatChien, Meta("b.pdf", 0), JsonVec(<<0, 1>>)),
    Row(4, TChien3, Meta("b.pdf", 1), JsonVec(<<1, 0>>)),
    Row(5, TChat, Meta("c.pdf", 0), JsonVec(<<3, 4>>)) >>

\* rows whose embedding column holds something else than a vector of the
\* query's dimension
CorpusMalformed == <<
    Row(1, TChat, Meta("a.pdf", 0), Vec(<<3, 4>>)),
    Row(2, TChatChien, Meta("a.pdf", 1), Vec(<<1>>)),
    Row(3, TPdf, Meta("b.pdf", 0), Other),
    Row(4, TChien3, Meta("b.pdf", 1), Null) >>

CorpusUnparsable == <<
    Row(1, TChat, Meta("a.pdf", 0), JsonVec(<<4, 3>>)),
    Row(2, TPdf, Meta("a.pdf", 1), JsonInvalid),
    Row(3, TChatChien, Meta("b.pdf", 0), JsonOther) >>

CorpusNonNumeric == <<
    Row(1, TChat, Meta("a.pdf", 0), Vec(<<0, 1>>)),
    Row(2, TChien3, Meta("a.pdf", 1), BadVec(<<3, 4>>, {2})) >>

\* rows whose content is whitespace only or empty
CorpusBlank == <<
    Row(1, <<" ", " ">>, Meta("a.pdf", 0), JsonVec(<<3, 4>>)),
    Row(2, TChat, Meta("a.pdf", 1), JsonVec(<<4, 3>>)),
    Row(3, <<>>, Meta("b.pdf", 0), JsonVec(<<1, 0>>)) >>

\* the same chunk stored twice, with the same embedding
CorpusDuplicate == <<
    Row(1, TPdf, Meta("a.pdf", 0), JsonVec(<<3, 4>>)),
    Row(2, TChat, Meta("a.pdf", 1), JsonVec(<<4, 3>>)),
    Row(3, TChat, Meta("b.pdf", 0), JsonVec(<<4, 3>>)) >>

\* rows orthogonal to one of the query vectors: their similarity to it is 0,
\* below the threshold of the RPC
CorpusOrthogonal == <<
    Row(1, TChat, Meta("a.pdf", 0), JsonVec(<<0, 1>>)),
    Row(2, TChatChien, Meta("a.pdf", 1), JsonVec(<<0, 3>>)) >>

Corpora ==
    {<<>>, CorpusGood, CorpusMalformed, CorpusUnparsable, CorpusNonNumeric,
     CorpusBlank, CorpusDuplicate, CorpusOrthogonal}

ContentsOf(rows) == {rows[i].content : i \in DOMAIN rows}

\* relevance scores the cross-encoder gives
RerankScores == {0, 1}

-----------------------------------------------------------------------------
(* vector_store.py *)

\* json.loads
json_loads(e) ==
    IF e.json = "invalid" THEN [raised |-> TRUE]
    ELSE IF e.json = "list" THEN [raised |-> FALSE, value |-> Vec(e.value)]
    ELSE [raised |-> FALSE, value |-> Other]

Dot(a, b) == SumSeq([i \in 1..Min(Len(a), Len(b)) |-> a[i] * b[i]])

Magnitude(a) == Sqrt(SumSeq([i \in DOMAIN a |-> a[i] * a[i]]))

\* VectorStore._cosine_similarity on two values already parsed: the similarity
\* in units of 1/Scale, or the exception float() raises
cosine_of_parsed(vec1, vec2) ==
    IF vec1.kind # "list" \/ vec2.kind # "list" THEN [raised |-> FALSE, value |-> 0]
    ELSE IF vec1.nonnumeric # {} \/ vec2.nonnumeric # {} THEN [raised |-> TRUE]
    ELSE LET dot_product == Dot(vec1.value, vec2.value)
             magnitude1 == Magnitude(vec1.value)
             magnitude2 == Magnitude(vec2.value)
         IN  IF magnitude1 = 0 \/ magnitude2 = 0 THEN [raised |-> FALSE, value |-> 0]
             ELSE [raised |-> FALSE,
                   value |-> (dot_product * Scale) \div (magnitude1 * magnitude2)]

\* VectorStore._cosine_similarity
cosine_similarity(vec1, vec2) ==
    LET p1 == IF vec1.kind = "str" THEN json_loads(vec1)
              ELSE [raised |-> FALSE, value |-> vec1]
        p2 == IF vec2.kind = "str" THEN json_loads(vec2)
              ELSE [raised |-> FALSE, value |-> vec2]
    IN  IF p1.raised \/ p2.raised THEN [raised |-> TRUE]
        ELSE cosine_of_parsed(p1.value, p2.value)

\* variant: no record is skipped
HasEmbedding_any(e) == TRUE

\* doc.get('embedding') is truthy
HasEmbedding(e) ==
    /\ e.kind # "null"
    /\ e.kind = "list" => e.value # <<>>

Candidate(row, similarity) ==
    [id |-> row.id, content |-> row.content, metadata |-> row.metadata,
     similarity |-> similarity]

\* .limit(100) of the fallback table read
FallbackLimit == 100

\* 'match_threshold': 0.01
MatchThreshold == Scale \div 100

\* self.supabase.table("documents").select("*").limit(100).execute()
table_read(rows) == Prefix(rows, FallbackLimit)

\* The fallback branch of similarity_search once the table read returned
\* all_docs: the list returned, or the exception of _cosine_similarity.
fallback_scan(all_docs, qe, k) ==
    IF all_docs = <<>> THEN [raised |-> FALSE, value |-> <<>>]
    ELSE LET with_embedding == SelectSeq(all_docs, LAMBDA d : HasEmbedding(d.embedding))
             sim(d) == cosine_similarity(Vec(qe), d.embedding)
         IN  IF \E i \in DOMAIN with_embedding : sim(with_embedding[i]).raised
             THEN [raised |-> TRUE]
             ELSE LET results == [i \in DOMAIN with_embedding |->
                                     Candidate(with_embedding[i], sim(with_embedding[i]).value)]
                      sorted == SortDesc(results, [i \in DOMAIN results |-> results[i].similarity])
                  IN  [raised |-> FALSE, value |-> Prefix(sorted, k)]

\* The match_documents function of the database: the rows holding a vector of
\* the query's dimension whose similarity exceeds the threshold, best first,
\* at most match_count of them.
match_documents(rows, qe, match_threshold, match_count) ==
    LET parsed(e) == IF e.kind = "str" /\ e.json = "list" THEN Vec(e.value) ELSE e
        wellformed(d) == LET e == parsed(d.embedding)
                         IN  /\ e.kind = "list"
                             /\ e.nonnumeric = {}
                             /\ Len(e.value) = Len(qe)
        sim(d) == cosine_of_parsed(Vec(qe), parsed(d.embedding)).value
        matching == SelectSeq(rows, LAMBDA d : wellformed(d) /\ sim(d) > match_threshold)
        results == [i \in DOMAIN matching |-> Candidate(matching[i], sim(matching[i]))]
    IN  Prefix(SortDesc(results, [i \in DOMAIN results |-> results[i].similarity]),
               match_count)

-----------------------------------------------------------------------------
(* hybrid_search.py: hybrid_search *)

\* the top_k of hybrid_search's signature
DefaultTopK == 20

\* top_k = int(top_k) if top_k else 20
hybrid_top_k(k) == IF k # 0 THEN k ELSE DefaultTopK

\* variant: no over-fetch inside hybrid_search
semantic_top_k_no_overfetch(k) == k

\* the count hybrid_search asks similarity_search for: int(top_k * 2)
semantic_top_k(k) == k * 2

\* doc.get('similarity', 0.5), in units of 1/Scale
semantic_score(doc) ==
    IF "similarity" \in DOMAIN doc THEN doc.similarity ELSE Scale \div 2

\* variant: the keyword term is subtracted
combined_score_subtracts(keyword_boost, sem, kw) ==
    (WeightScale - keyword_boost) * sem - keyword_boost * kw

\* variant: the two weights are exchanged
combined_score_swapped(keyword_boost, sem, kw) ==
    keyword_boost * sem + (WeightScale - keyword_boost) * kw

\* variant: the keyword score is ignored
combined_score_semantic_only(keyword_boost, sem, kw) ==
    WeightScale * sem

\* (1 - keyword_boost) * semantic_score + keyword_boost * keyword_score,
\* in units of 1/(WeightScale * Scale); keyword_boost in units of 1/WeightScale
combined_score(keyword_boost, sem, kw) ==
    (WeightScale - keyword_boost) * sem + keyword_boost * kw

\* doc[name] = value
SetItem(doc, name, value) == [x \in {name} |-> value] @@ doc

\* steps 2 to 4 of hybrid_search: scored_results after the sort
hybrid_scored(results, query, keyword_boost) ==
    LET keywords == extract_keywords(query)
        score(doc) ==
            LET keyword_score == calculate_keyword_score(doc.content, keywords)
                hybrid == combined_score(keyword_boost, semantic_score(doc), keyword_score)
            IN  SetItem(SetItem(doc, "hybrid_score", hybrid),
                        "keyword_score", keyword_score)
        scored_results == [i \in DOMAIN results |-> score(results[i])]
    IN  SortDesc(scored_results,
                 [i \in DOMAIN scored_results |-> scored_results[i].hybrid_score])

\* variant: a list shorter than top_k is filled up with its last candidate
hybrid_return_pads(scored_results, k) ==
    IF scored_results = <<>> THEN <<>>
    ELSE [i \in 1..k |-> scored_results[Min(i, Len(scored_results))]]

\* return scored_results[:top_k]
hybrid_return(scored_results, k) == Prefix(scored_results, k)

-----------------------------------------------------------------------------
(* reranker.py *)

\* ReRanker.__init__: the value of self.model
ReRanker_init(reranker_available, load_ok) ==
    IF ~reranker_available THEN "None"
    ELSE IF load_ok THEN "Loaded" ELSE "None"

\* doc['content'][:512]
PairLimit == 512

Pair(query, doc) == <<query, Prefix(doc.content, PairLimit)>>

PairsOf(rows) == {<<q, Prefix(c, PairLimit)>> : q \in Questions, c \in ContentsOf(rows)}

\* where an exception is raised inside the try block of rerank, if anywhere
Faults(docs) ==
    {[at |-> a] : a \in {"none", "predict", "sort", "log"}}
        \cup {[at |-> "assign", index |-> j] : j \in DOMAIN docs}

\* ReRanker.rerank: the list returned (ret), the caller's list after the
\* in-place updates (documents), and how the call ended
rerank(m, encoder, query, docs, k, fault) ==
    IF m = "None" \/ docs = <<>>
    THEN [ret |-> Prefix(docs, k), documents |-> docs, status |-> "skipped"]
    ELSE LET scores == [i \in DOMAIN docs |-> encoder[Pair(query, docs[i])]]
             assigned_upto(n) ==
                 [i \in DOMAIN docs |->
                     IF i <= n THEN SetItem(docs[i], "rerank_score", scores[i])
                     ELSE docs[i]]
             assigned == assigned_upto(Len(docs))
             sorted == SortDesc(assigned, scores)
             after ==
                 CASE fault.at = "predict" -> docs
                   [] fault.at = "assign" -> assigned_upto(fault.index - 1)
                   [] fault.at = "sort" -> assigned
                   [] fault.at = "log" -> sorted
                   [] fault.at = "none" -> sorted
         IN  [ret |-> Prefix(after, k), documents |-> after,
              status |-> IF fault.at = "none" THEN "ok" ELSE "failed"]

-----------------------------------------------------------------------------
(* rag_engine.py: RAGEngine.query *)

\* keyword_boost=0.6, in units of 1/WeightScale
KeywordBoost == 6

\* doc['content'][:200] + "..."
SourceLimit == 200

Ellipsis == <<".", ".", ".">>

Source(doc) ==
    [file_name |-> doc.metadata.file_name,
     chunk_index |-> doc.metadata.chunk_index,
     content |-> IF Len(doc.content) > SourceLimit
                 THEN Prefix(doc.content, SourceLimit) \o Ellipsis
                 ELSE doc.content]

Sources(docs) == [i \in DOMAIN docs |-> Source(docs[i])]

NoInfo == [kind |-> "no_info", sources |-> <<>>]
Raised(where) == [kind |-> "raised", at |-> where]
Answer(docs) == [kind |-> "answer", sources |-> Sources(docs)]

\* variant: no early return on an empty list
after_hybrid_no_early_return(docs) ==
    IF model = "Loaded" THEN "rerank" ELSE "generate"

\* what query does with the list hybrid_search returned (lines 158-171):
\* return early, re-rank, or go on to the answer
after_hybrid(docs) ==
    IF docs = <<>> THEN "returned"
    ELSE IF model = "Loaded" THEN "rerank"
    ELSE "generate"

\* hybrid_search from the point where similarity_search returned sem, having
\* made the calls in stages
RetrievedAfter(sem, stages) ==
    LET scored == hybrid_scored(sem, question, KeywordBoost)
        docs == hybrid_return(scored, hs_top_k)
    IN  /\ calls' = calls \cup stages \cup {"hybrid_scoring"}
        /\ semantic_results' = sem
        /\ hybrid_sorted' = scored
        /\ relevant_docs' = docs
        /\ pc' = after_hybrid(docs)
        /\ result' = IF docs = <<>> THEN NoInfo ELSE result

\* hybrid_search from the point where similarity_search returned sem
Retrieved(sem, stage) == RetrievedAfter(sem, {stage})

\* query raises
Raise(where, stage) ==
    /\ calls' = calls \cup {stage}
    /\ pc' = "returned"
    /\ result' = Raised(where)

\* no other invocation
NoQuery == [pc |-> "none"]

\* no direct call
NoCall == [fn |-> "none"]

Init ==
    /\ \E reranker_available, load_ok \in BOOLEAN :
           model = ReRanker_init(reranker_available, load_ok)
    /\ store \in Corpora
    /\ ce \in IF model = "Loaded" THEN [PairsOf(store) -> RerankScores]
              ELSE {[p \in PairsOf(store) |-> 0]}
    /\ pc = "idle"
    /\ question = <<>>
    /\ top_k = 0
    /\ hs_top_k = 0
    /\ requested = 0
    /\ query_embedding = <<>>
    /\ semantic_results = <<>>
    /\ hybrid_sorted = <<>>
    /\ documents = <<>>
    /\ relevant_docs = <<>>
    /\ rerank_status = "none"
    /\ calls = {}
    /\ result = [kind |-> "none"]
    /\ messages = <<>>
    /\ other = NoQuery
    /\ call = NoCall

\* query(question, top_k) up to the call of similarity_search, as one of
\* several invocations
BeginQuery(q, k) ==
    /\ pc \in {"idle", "returned"}
    /\ question' = q
    /\ top_k' = k
    /\ hs_top_k' = hybrid_top_k(k * 2)
    /\ requested' = semantic_top_k(hybrid_top_k(k * 2))
    /\ pc' = "create_embedding"
    /\ query_embedding' = <<>>
    /\ semantic_results' = <<>>
    /\ hybrid_sorted' = <<>>
    /\ documents' = <<>>
    /\ relevant_docs' = <<>>
    /\ rerank_status' = "none"
    /\ calls' = {}
    /\ result' = [kind |-> "running"]
    /\ UNCHANGED <<model, ce, store>>

\* query(question, top_k) up to the call of similarity_search
StartQuery(q, k) ==
    /\ BeginQuery(q, k)
    /\ UNCHANGED <<messages, call, other>>

\* similarity_search: self.create_embedding(query), outside any try
CreateEmbedding ==
    /\ pc = "create_embedding"
    /\ \/ \E v \in QueryVectors :
              /\ calls' = calls \cup {"create_embedding"}
              /\ query_embedding' = v
              /\ pc' = "rpc"
              /\ UNCHANGED result
       \/ /\ Raise("create_embedding", "create_embedding")
          /\ UNCHANGED query_embedding
    /\ UNCHANGED <<messages, call, other, model, ce, store, question, top_k, hs_top_k, requested,
                   semantic_results, hybrid_sorted, documents, relevant_docs,
                   rerank_status>>

\* variant: the scan is forced whenever the RPC returns nothing
RpcSearch_scans_on_empty ==
    /\ pc = "rpc"
    /\ \/ /\ calls' = calls \cup {"rpc"}
          /\ pc' = "fallback"
          /\ UNCHANGED <<semantic_results, hybrid_sorted, relevant_docs, result>>
       \/ LET data == match_documents(store, query_embedding, MatchThreshold, requested)
          IN  IF data = <<>>
              THEN /\ calls' = calls \cup {"rpc", "get_document_count"}
                   /\ pc' = "fallback"
                   /\ UNCHANGED <<semantic_results, hybrid_sorted, relevant_docs, result>>
              ELSE Retrieved(data, "rpc")
    /\ UNCHANGED <<messages, call, other, model, ce, store, question, top_k, hs_top_k, requested,
                   query_embedding, documents, rerank_status>>

\* similarity_search: the try block (the RPC, and get_document_count when the
\* RPC returned nothing)
RpcSearch ==
    /\ pc = "rpc"
    /\ \/ \* the RPC raises
          /\ calls' = calls \cup {"rpc"}
          /\ pc' = "fallback"
          /\ UNCHANGED <<semantic_results, hybrid_sorted, relevant_docs, result>>
       \/ \E count_ok \in BOOLEAN :
              LET data == match_documents(store, query_embedding, MatchThreshold, requested)
                  doc_count == IF count_ok THEN Len(store) ELSE 0
              IN  IF data = <<>> /\ doc_count > 0
                  THEN /\ calls' = calls \cup {"rpc", "get_document_count"}
                       /\ pc' = "fallback"
                       /\ UNCHANGED <<semantic_results, hybrid_sorted, relevant_docs, result>>
                  ELSE IF data = <<>>
                  THEN RetrievedAfter(data, {"rpc", "get_document_count"})
                  ELSE Retrieved(data, "rpc")
    /\ UNCHANGED <<messages, call, other, model, ce, store, question, top_k, hs_top_k, requested,
                   query_embedding, documents, rerank_status>>

\* similarity_search: the except block (table read and linear scan)
Fallback ==
    /\ pc = "fallback"
    /\ \/ /\ Raise("table_read", "table_read")
          /\ UNCHANGED <<semantic_results, hybrid_sorted, relevant_docs>>
       \/ LET all_docs == table_read(store)
              scan == fallback_scan(all_docs, query_embedding, requested)
          IN  IF scan.raised
              THEN /\ Raise("cosine_similarity", "table_read")
                   /\ UNCHANGED <<semantic_results, hybrid_sorted, relevant_docs>>
              ELSE Retrieved(scan.value, "table_read")
    /\ UNCHANGED <<messages, call, other, model, ce, store, question, top_k, hs_top_k, requested,
                   query_embedding, documents, rerank_status>>

\* variant: the in-place sort of rerank reaches the stored rows: the rows of
\* the re-ranked documents come first, in the order rerank left them
Rerank_sorts_store ==
    /\ pc = "rerank"
    /\ \E fault \in Faults(relevant_docs) :
           LET r == rerank(model, ce, question, relevant_docs, top_k, fault)
               ids == {r.documents[i].id : i \in DOMAIN r.documents}
               front == [i \in DOMAIN r.documents |->
                            store[CHOOSE j \in DOMAIN store :
                                      store[j].id = r.documents[i].id]]
               rest == SelectSeq(store, LAMBDA row : row.id \notin ids)
           IN  /\ documents' = r.documents
               /\ relevant_docs' = r.ret
               /\ rerank_status' = r.status
               /\ calls' = calls \cup {"rerank"}
               /\ store' = front \o rest
    /\ pc' = "generate"
    /\ UNCHANGED <<messages, call, other, model, ce, question, top_k, hs_top_k, requested,
                   query_embedding, semantic_results, hybrid_sorted, result>>

\* variant: a failed rerank call switches the reranker off
Rerank_disables_on_failure ==
    /\ pc = "rerank"
    /\ \E fault \in Faults(relevant_docs) :
           LET r == rerank(model, ce, question, relevant_docs, top_k, fault)
           IN  /\ documents' = r.documents
               /\ relevant_docs' = r.ret
               /\ rerank_status' = r.status
               /\ calls' = calls \cup {"rerank"}
               /\ model' = IF r.status = "failed" THEN "None" ELSE model
    /\ pc' = "generate"
    /\ UNCHANGED <<messages, call, other, ce, store, question, top_k, hs_top_k, requested,
                   query_embedding, semantic_results, hybrid_sorted, result>>

\* query: self.reranker.rerank(question, relevant_docs, top_k=top_k)
Rerank ==
    /\ pc = "rerank"
    /\ \E fault \in Faults(relevant_docs) :
           LET r == rerank(model, ce, question, relevant_docs, top_k, fault)
           IN  /\ documents' = r.documents
               /\ relevant_docs' = r.ret
               /\ rerank_status' = r.status
               /\ calls' = calls \cup {"rerank"}
    /\ pc' = "generate"
    /\ UNCHANGED <<messages, call, other, model, ce, store, question, top_k, hs_top_k, requested,
                   query_embedding, semantic_results, hybrid_sorted, result>>

\* query: the chat completion and the sources
Generate ==
    /\ pc = "generate"
    /\ calls' = calls \cup {"generate"}
    /\ pc' = "returned"
    /\ \/ result' = Answer(relevant_docs)
       \/ result' = Raised("generate")
    /\ UNCHANGED <<messages, call, other, model, ce, store, question, top_k, hs_top_k, requested,
                   query_embedding, semantic_results, hybrid_sorted, documents,
                   relevant_docs, rerank_status>>

Next ==
    \/ \E q \in Questions, k \in 0..MaxTopK : StartQuery(q, k)
    \/ CreateEmbedding
    \/ RpcSearch
    \/ Fallback
    \/ Rerank
    \/ Generate

Spec == Init /\ [][Next]_vars

-----------------------------------------------------------------------------
(* RAGEngine.query called again with the same arguments *)

\* what the invocations of query on one engine share
engine == <<model, ce, store>>

\* what each invocation has of its own
locals == <<pc, question, top_k, hs_top_k, requested, query_embedding,
            semantic_results, hybrid_sorted, documents, relevant_docs,
            rerank_status, calls, result>>

\* the local variables of the running invocation of query
Parked ==
    [pc |-> pc, question |-> question, top_k |-> top_k, hs_top_k |-> hs_top_k,
     requested |-> requested, query_embedding |-> query_embedding,
     semantic_results |-> semantic_results, hybrid_sorted |-> hybrid_sorted,
     documents |-> documents, relevant_docs |-> relevant_docs,
     rerank_status |-> rerank_status, calls |-> calls, result |-> result]

\* a cross-encoder that gives relevance 1 to one content and 0 to the others
FavouriteEncoder(rows, content) ==
    [p \in PairsOf(rows) |->
        IF p[2] = Prefix(content, PairLimit) THEN 1 ELSE 0]

\* one engine over a corpus in which candidates tie
InitRepeat ==
    /\ Init
    /\ store \in {CorpusGood, CorpusDuplicate}
    /\ model = "Loaded" => \E c \in ContentsOf(store) : ce = FavouriteEncoder(store, c)

\* the first call of query
FirstQuery ==
    /\ pc = "idle"
    /\ \E q \in Questions, k \in 0..MaxTopK : StartQuery(q, k)

\* query returned and is called again with the same question and top_k; the
\* lists and the result of the first call are kept for comparison
Repeat ==
    /\ pc = "returned"
    /\ other = NoQuery
    /\ other' = Parked
    /\ BeginQuery(question, top_k)
    /\ UNCHANGED <<messages, call>>

NextRepeat ==
    \/ FirstQuery
    \/ CreateEmbedding
    \/ RpcSearch
    \/ Fallback
    \/ Rerank
    \/ Generate
    \/ Repeat

SpecRepeat == InitRepeat /\ [][NextRepeat]_vars

-----------------------------------------------------------------------------
(* Two invocations of RAGEngine.query running concurrently on one engine *)

InitConc ==
    /\ Init
    /\ store = CorpusDuplicate
    /\ model = "Loaded" => \E c \in ContentsOf(store) : ce = FavouriteEncoder(store, c)

\* a second thread calls query: its invocation becomes the running one, the
\* invocation of the first thread waits in other
StartOther ==
    /\ pc = "idle"
    /\ other = NoQuery
    /\ other' = Parked
    /\ BeginQuery(QChatChien, 1)
    /\ UNCHANGED <<messages, call>>

\* variant: the two invocations work on the same lists
Switch_shares_lists ==
    /\ other # NoQuery
    /\ other' = Parked
    /\ pc' = other.pc
    /\ question' = other.question
    /\ top_k' = other.top_k
    /\ hs_top_k' = other.hs_top_k
    /\ requested' = other.requested
    /\ query_embedding' = other.query_embedding
    /\ rerank_status' = other.rerank_status
    /\ calls' = other.calls
    /\ result' = other.result
    /\ UNCHANGED <<messages, engine, call, semantic_results, hybrid_sorted, documents,
                   relevant_docs>>

\* the scheduler runs the other thread: each invocation has its own locals
Switch ==
    /\ other # NoQuery
    /\ other' = Parked
    /\ pc' = other.pc
    /\ question' = other.question
    /\ top_k' = other.top_k
    /\ hs_top_k' = other.hs_top_k
    /\ requested' = other.requested
    /\ query_embedding' = other.query_embedding
    /\ semantic_results' = other.semantic_results
    /\ hybrid_sorted' = other.hybrid_sorted
    /\ documents' = other.documents
    /\ relevant_docs' = other.relevant_docs
    /\ rerank_status' = other.rerank_status
    /\ calls' = other.calls
    /\ result' = other.result
    /\ UNCHANGED <<messages, engine, call>>

NextConc ==
    \/ FirstQuery
    \/ StartOther
    \/ Switch
    \/ CreateEmbedding
    \/ RpcSearch
    \/ Fallback
    \/ Rerank
    \/ Generate

SpecConc == InitConc /\ [][NextConc]_vars

-----------------------------------------------------------------------------
(* RAGEngine.index_documents, VectorStore.add_documents, check_file_exists *)

\* batch_size = 50
BatchSize == 50

\* a PDF file of the directory: its name and the chunks process_pdf extracts
PdfFile(name, chunks) == [name |-> name, file_hash |-> <<"hash", name>>, chunks |-> chunks]

\* The PDF directory: a short file, a file whose chunks do not fit in the
\* batch the short file has started (one of them is blank), and a scanned
\* file without text.
PdfFiles == <<
    PdfFile("a.pdf", [i \in 1..3 |-> TChat]),
    PdfFile("b.pdf", [i \in 1..(BatchSize + 2) |-> IF i = 2 THEN <<" ">> ELSE TChatChien]),
    PdfFile("c.pdf", <<>>) >>

\* VectorStore.check_file_exists: a failed query is answered False
check_file_exists(rows, file_hash, query_ok) ==
    /\ query_ok
    /\ \E i \in DOMAIN rows : rows[i].metadata.file_hash = file_hash

\* the documents index_documents builds from the chunks of a file
DocumentsOf(file) ==
    [i \in DOMAIN file.chunks |->
        [content |-> file.chunks[i], metadata |-> Meta(file.name, i - 1)]]

RECURSIVE Concat(_)
Concat(seqs) == IF seqs = <<>> THEN <<>> ELSE Head(seqs) \o Concat(Tail(seqs))

\* number of batches add_documents inserts for n records
Batches(n) == (n + BatchSize - 1) \div BatchSize

\* What goes wrong in add_documents: the insert of batch insert_fails raises
\* (0: none), create_embedding raises on record embedding_fails (0: none).
IndexFaults(n) ==
    {[insert_fails |-> f, embedding_fails |-> e] :
        f \in 0..Batches(n), e \in {0} \cup ({1, BatchSize + 1} \cap 1..n)}

\* VectorStore.add_documents on the table rows: the table afterwards, the
\* value returned, and whether create_embedding raised
add_documents(rows, docs, fault) ==
    LET kept == SelectSeq(docs, LAMBDA doc : Strip(doc.content) # <<>>)
        n == Len(kept)
        \* batch being filled when create_embedding raises
        embedding_batch == IF fault.embedding_fails \notin 1..n THEN Batches(n) + 1
                           ELSE ((fault.embedding_fails - 1) \div BatchSize) + 1
        insert_batch == IF fault.insert_fails \notin 1..Batches(n) THEN Batches(n) + 1
                        ELSE fault.insert_fails
        \* batches inserted before the first failure
        inserted == Min(embedding_batch, insert_batch) - 1
        stored == Prefix(kept, inserted * BatchSize)
        records == [i \in DOMAIN stored |->
                       Row(Len(rows) + i, stored[i].content, stored[i].metadata,
                           JsonVec(<<3, 4>>))]
    IN  IF docs = <<>>
        THEN [store |-> rows, ret |-> FALSE, raised |-> FALSE]
        ELSE [store |-> rows \o records,
              ret |-> inserted = Batches(n),
              raised |-> embedding_batch <= insert_batch /\ embedding_batch <= Batches(n)]

\* RAGEngine.index_documents(force_reindex): the table afterwards, the pair
\* returned, whether an exception left the function. clear_ok: the delete of
\* clear_all_documents succeeded; checks_ok[i]: the query of
\* check_file_exists for file i succeeded.
index_documents(rows, force_reindex, pdf_files, clear_ok, checks_ok, fault) ==
    LET cleared == IF force_reindex /\ clear_ok THEN <<>> ELSE rows
        skipped(i) == /\ ~force_reindex
                      /\ check_file_exists(cleared, pdf_files[i].file_hash, checks_ok[i])
        processed(i) == ~skipped(i) /\ pdf_files[i].chunks # <<>>
        documents_to_add ==
            Concat([i \in DOMAIN pdf_files |->
                       IF processed(i) THEN DocumentsOf(pdf_files[i]) ELSE <<>>])
        files_processed == Cardinality({i \in DOMAIN pdf_files : processed(i)})
        added == add_documents(cleared, documents_to_add, fault)
    IN  IF pdf_files = <<>>
        THEN [store |-> cleared, raised |-> FALSE, ret |-> <<0, 0>>, inserted |-> TRUE]
        ELSE [store |-> added.store, raised |-> added.raised,
              ret |-> <<files_processed, Len(documents_to_add)>>,
              inserted |-> documents_to_add = <<>> \/ added.ret]

\* number of runs of index_documents so far
Runs == IF call.fn = "index_documents" THEN call.run ELSE 0

\* the previous run, if any, inserted all it had to
PreviousComplete == call.fn = "index_documents" => call.complete

\* "Index Documents" / "Force Reindex": one run of index_documents
IndexDocuments ==
    /\ Runs < MaxRuns
    /\ \E force_reindex, clear_ok \in BOOLEAN,
          checks_ok \in [DOMAIN PdfFiles -> BOOLEAN] :
         \E fault \in IndexFaults(BatchSize + 4) :
           LET r == index_documents(store, force_reindex, PdfFiles, clear_ok,
                                    checks_ok, fault)
           IN  /\ store' = r.store
               /\ call' = [fn |-> "index_documents", run |-> Runs + 1,
                           force_reindex |-> force_reindex,
                           checks_ok |-> checks_ok,
                           before |-> store,
                           previous_complete |-> PreviousComplete,
                           complete |-> r.inserted /\ ~r.raised,
                           raised |-> r.raised,
                           ret |-> r.ret]
    /\ UNCHANGED <<messages, model, ce, locals, other>>

InitIndex ==
    /\ Init
    /\ model = "None"
    /\ store = <<>>

NextIndex ==
    \/ IndexDocuments

SpecIndex == InitIndex /\ [][NextIndex]_vars

-----------------------------------------------------------------------------
(* app.py: the chat session *)

\* query(question, top_k=20): the chat handler passes no top_k
QueryTopK == 20

UserMessage(prompt) == [role |-> "user", content |-> prompt]

\* the message appended after query: the answer with its sources, or
\* "Error: ..." with no sources
AssistantMessage(r) ==
    IF r.kind = "raised"
    THEN [role |-> "assistant", content |-> <<"Error", r.at>>, sources |-> <<>>]
    ELSE [role |-> "assistant", content |-> r.kind, sources |-> r.sources]

\* the chat input is shown when documents are indexed
InitChat ==
    /\ Init
    /\ store = CorpusDuplicate
    /\ model = "Loaded" => ce = FavouriteEncoder(store, TChat)

\* a prompt is entered: the user message is appended and query is called
Submit ==
    /\ pc = "idle"
    /\ Len(messages) < MaxMessages
    /\ \E prompt \in Questions :
           /\ messages' = Append(messages, UserMessage(prompt))
           /\ BeginQuery(prompt, QueryTopK)
    /\ UNCHANGED <<call, other>>

\* query returned or raised: the assistant message is appended and the
\* script run ends
Reply ==
    /\ pc = "returned"
    /\ messages' = Append(messages, AssistantMessage(result))
    /\ pc' = "idle"
    /\ UNCHANGED <<engine, call, other, question, top_k, hs_top_k, requested,
                   query_embedding, semantic_results, hybrid_sorted, documents,
                   relevant_docs, rerank_status, calls, result>>

\* the "Clear Chat History" button: the history is emptied and the script
\* reruns; a run that was in progress is dropped
ClearChat ==
    /\ messages' = <<>>
    /\ pc' = "idle"
    /\ UNCHANGED <<engine, call, other, question, top_k, hs_top_k, requested,
                   query_embedding, semantic_results, hybrid_sorted, documents,
                   relevant_docs, rerank_status, calls, result>>

\* Another widget is used (the debug checkbox, an indexing button, the chat
\* input) while the handler is between its two appends: the script run in
\* progress is stopped with an exception that is not an Exception, and the
\* script runs again from the top.
StopRun ==
    /\ pc \notin {"idle"}
    /\ pc' = "idle"
    /\ UNCHANGED <<engine, call, other, messages, question, top_k, hs_top_k,
                   requested, query_embedding, semantic_results, hybrid_sorted,
                   documents, relevant_docs, rerank_status, calls, result>>

NextChat ==
    \/ Submit
    \/ CreateEmbedding
    \/ RpcSearch
    \/ Fallback
    \/ Rerank
    \/ Generate
    \/ Reply
    \/ ClearChat
    \/ StopRun

SpecChat == InitChat /\ [][NextChat]_vars

\* the session when no script run is cut short
NextChatUninterrupted ==
    \/ Submit
    \/ CreateEmbedding
    \/ RpcSearch
    \/ Fallback
    \/ Rerank
    \/ Generate
    \/ Reply
    \/ pc = "idle" /\ ClearChat

SpecChatUninterrupted == InitChat /\ [][NextChatUninterrupted]_vars

-----------------------------------------------------------------------------
(* Progress of RAGEngine.query *)

InitLive ==
    /\ Init
    /\ store = CorpusDuplicate
    /\ model = "Loaded" => \E c \in ContentsOf(store) : ce = FavouriteEncoder(store, c)

\* The embedding service and the chat service answer every call. The calls
\* of the retriever (the RPC, the table read) and of the cross-encoder
\* (predict) are made without a timeout: query goes on when they answer, and
\* nothing makes them answer.
SpecLive ==
    /\ InitLive
    /\ [][Next]_vars
    /\ WF_vars(CreateEmbedding)
    /\ WF_vars(Generate)

-----------------------------------------------------------------------------
(* Direct calls of the functions of hybrid_search.py *)

\* all sequences over S of length at most n
SeqsUpTo(S, n) == UNION {[1..m -> S] : m \in 0..n}

ScoreAlphabet == {"a", "A", "b"}

ScoreTexts == SeqsUpTo(ScoreAlphabet, MaxTextLen)

ScoreKeywords == {<<"a", "a">>, <<"a", "b">>, <<"B", "a">>}

\* calculate_keyword_score(text, keywords)
CallKeywordScore ==
    /\ call = NoCall
    /\ \E text \in ScoreTexts, keywords \in SeqsUpTo(ScoreKeywords, MaxKeywords) :
           call' = [fn |-> "calculate_keyword_score", text |-> text,
                    keywords |-> keywords,
                    ret |-> calculate_keyword_score(text, keywords)]
    /\ UNCHANGED <<messages, engine, locals, other>>

\* semantic scores of the candidates handed to the scoring steps
PoolSimilarities == {(Scale \div 5) * 2, Scale}

PoolContents == {TChat, TChatChien, TPdf}

\* pools as similarity_search returns them; the id is the retrieval position
Pools ==
    {[i \in DOMAIN p |->
         [id |-> i, content |-> p[i][2], metadata |-> Meta("a.pdf", i),
          similarity |-> p[i][1]]] :
     p \in SeqsUpTo(PoolSimilarities \X PoolContents, MaxPool)}

\* keyword_boost in [0, 1], in units of 1/WeightScale
KeywordBoosts == 0..WeightScale

\* steps 2 to 4 of hybrid_search(vector_store, query, top_k, keyword_boost)
\* on the pool similarity_search returned
CallHybridScored ==
    /\ call = NoCall
    /\ \E results \in Pools, query \in Questions, keyword_boost \in KeywordBoosts :
           call' = [fn |-> "hybrid_search", results |-> results, query |-> query,
                    keyword_boost |-> keyword_boost,
                    ret |-> hybrid_scored(results, query, keyword_boost)]
    /\ UNCHANGED <<messages, engine, locals, other>>

\* words a query is made of: a stop word, a word in two spellings, a word
\* with punctuation, a short word
QueryWords ==
    {<<"L", "e", "s">>, <<"C", "h", "a", "t">>, <<"c", "h", "a", "t">>,
     <<"c", "h", "i", "e", "n", "?">>, <<"a", "b">>}

RECURSIVE JoinWords(_)
\* " ".join(words)
JoinWords(words) ==
    IF words = <<>> THEN <<>>
    ELSE IF Len(words) = 1 THEN words[1]
    ELSE words[1] \o <<" ">> \o JoinWords(Tail(words))

Queries == {JoinWords(ws) : ws \in SeqsUpTo(QueryWords, MaxQueryWords)}

\* extract_keywords(query)
CallExtractKeywords ==
    /\ call = NoCall
    /\ \E query \in Queries :
           call' = [fn |-> "extract_keywords", query |-> query,
                    ret |-> extract_keywords(query)]
    /\ UNCHANGED <<messages, engine, locals, other>>

\* embedding column of the i-th record of a large table: none, or one of
\* three vectors; the records past the limit of the table read hold a fourth
TableEmbedding(i) ==
    CASE i > FallbackLimit -> JsonVec(<<3, 4>>)
      [] i <= FallbackLimit /\ i % 4 = 0 -> JsonVec(<<0, 1>>)
      [] i <= FallbackLimit /\ i % 4 = 1 -> JsonVec(<<4, 3>>)
      [] i <= FallbackLimit /\ i % 4 = 2 -> Null
      [] i <= FallbackLimit /\ i % 4 = 3 -> Vec(<<1, 0>>)

\* a documents table of n records
Table(n) == [i \in 1..n |-> Row(i, TChat, Meta("a.pdf", i), TableEmbedding(i))]

\* table sizes around the limit of the table read
TableSizes == {0, 2, FallbackLimit, FallbackLimit + 1, FallbackLimit + 3}

\* the except block of similarity_search(query, top_k): table read and scan
CallFallbackSearch ==
    /\ call = NoCall
    /\ \E n \in TableSizes, qe \in QueryVectors, k \in 1..(2 * MaxTopK) :
           call' = [fn |-> "similarity_search", table |-> Table(n),
                    query_embedding |-> qe, top_k |-> k,
                    all_docs |-> table_read(Table(n)),
                    ret |-> fallback_scan(table_read(Table(n)), qe, k)]
    /\ UNCHANGED <<messages, engine, locals, other>>

\* no engine is needed for the direct calls
InitFn ==
    /\ Init
    /\ model = "None"
    /\ store = <<>>

NextFn ==
    \/ CallKeywordScore
    \/ CallHybridScored
    \/ CallExtractKeywords
    \/ CallFallbackSearch

SpecFn == InitFn /\ [][NextFn]_vars

-----------------------------------------------------------------------------
(* Properties *)

NonIncreasing(keys) == \A i \in 1..(Len(keys) - 1) : keys[i] >= keys[i + 1]

RerankScoresOf(s) == [i \in DOMAIN s |-> s[i].rerank_score]

HybridScoresOf(s) == [i \in DOMAIN s |-> s[i].hybrid_score]

Ids(s) == [i \in DOMAIN s |-> s[i].id]

\* query has its final chunk list and is about to build the context from it
Grounding == pc = "generate"

\* similarity_search was entered by the running query
SearchEntered == "create_embedding" \in calls

\* similarity_search returned a list to hybrid_search
SearchReturned == "hybrid_scoring" \in calls

\* c and d are the same letter up to case
SameLetter(c, d) == LowerChar(c) = LowerChar(d)

\* the positions of text where sub occurs, ignoring case
MatchPositions(text, sub) ==
    {p \in 1..(Len(text) - Len(sub) + 1) :
        \A i \in DOMAIN sub : SameLetter(text[p + i - 1], sub[i])}

\* the largest number of occurrences of sub in text, ignoring case, no two
\* of which overlap
Occurrences(text, sub) ==
    LET disjoint(S) == \A p, q \in S : p < q => q - p >= Len(sub)
        sizes == {Cardinality(S) : S \in {T \in SUBSET MatchPositions(text, sub) : disjoint(T)}}
    IN  CHOOSE n \in sizes : \A m \in sizes : m <= n

TotalOccurrences(text, keywords) ==
    SumSeq([i \in DOMAIN keywords |-> Occurrences(text, keywords[i])])

\* C11: calculate_keyword_score(text, keywords) lies in [0, 1], equals
\* min(1, occurrences of the keywords in text / number of keywords) with
\* case-insensitive occurrences, and is 0.0 for no keywords.
C11_KeywordScore ==
    call.fn = "calculate_keyword_score" =>
        /\ call.ret \in 0..Scale
        /\ call.keywords = <<>> => call.ret = 0
        /\ call.keywords # <<>> =>
               call.ret * Len(call.keywords) =
                   Min(TotalOccurrences(call.text, call.keywords), Len(call.keywords)) * Scale

\* a text of mixed case in which the only keyword occurs twice: the
\* quotient 2/1 is clamped to 1
C11_Witness ==
    /\ call.fn = "calculate_keyword_score"
    /\ call.text = <<"a", "A", "a", "a">>
    /\ call.keywords = <<<<"a", "a">>>>
    /\ call.ret = Scale

\* C12: for a fixed keyword_boost in [0, 1] the hybrid_score assigned,
\* (1 - keyword_boost) * semantic_score + keyword_boost * keyword_score, is
\* non-decreasing in both scores: a candidate at least as good on both
\* signals as another never gets a lower hybrid_score.
C12_HybridScoreMonotonic ==
    call.fn = "hybrid_search" =>
        /\ \A i \in DOMAIN call.ret :
               WeightScale * call.ret[i].hybrid_score =
                   WeightScale * (WeightScale - call.keyword_boost) * call.ret[i].similarity
                       + WeightScale * call.keyword_boost * call.ret[i].keyword_score
        /\ \A i, j \in DOMAIN call.ret :
               (/\ call.ret[i].similarity <= call.ret[j].similarity
                /\ call.ret[i].keyword_score <= call.ret[j].keyword_score)
                   => call.ret[i].hybrid_score <= call.ret[j].hybrid_score

\* two candidates, the second better on both signals and scored higher
C12_Witness ==
    /\ call.fn = "hybrid_search"
    /\ call.keyword_boost = KeywordBoost
    /\ \E i, j \in DOMAIN call.ret :
           /\ call.ret[i].similarity < call.ret[j].similarity
           /\ call.ret[i].keyword_score < call.ret[j].keyword_score
           /\ call.ret[i].hybrid_score < call.ret[j].hybrid_score

\* ret holds the candidates of results, each once
SameCandidates(ret, results) ==
    /\ Len(ret) = Len(results)
    /\ \A i \in DOMAIN results : \E j \in DOMAIN ret :
           /\ ret[j].id = results[i].id
           /\ ret[j].content = results[i].content
           /\ ret[j].similarity = results[i].similarity

\* keys[i] is the key of ret[i]: larger keys first, equal keys in retrieval order
OrderedByKeyThenRetrieval(ret, keys) ==
    \A i \in 1..(Len(ret) - 1) :
        \/ keys[i] > keys[i + 1]
        \/ keys[i] = keys[i + 1] /\ ret[i].id < ret[i + 1].id

\* C13: with keyword_boost = 0 the order returned is the order by semantic
\* score alone, ties in retrieval order; with keyword_boost = 1 it is the
\* order by keyword score alone.
C13_ExtremeWeights ==
    call.fn = "hybrid_search" =>
        /\ call.keyword_boost = 0 =>
               /\ SameCandidates(call.ret, call.results)
               /\ OrderedByKeyThenRetrieval(call.ret,
                      [i \in DOMAIN call.ret |-> call.ret[i].similarity])
        /\ call.keyword_boost = WeightScale =>
               /\ SameCandidates(call.ret, call.results)
               /\ OrderedByKeyThenRetrieval(call.ret,
                      [i \in DOMAIN call.ret |-> call.ret[i].keyword_score])

\* keyword_boost = 0, and the candidate retrieved second is semantically
\* better but lexically worse than the first: it is returned first
C13_Witness ==
    /\ call.fn = "hybrid_search"
    /\ call.keyword_boost = 0
    /\ Len(call.results) = 2
    /\ call.results[1].similarity < call.results[2].similarity
    /\ call.ret[1].id = 2
    /\ call.ret[1].keyword_score < call.ret[2].keyword_score

\* every term is lowercase, longer than 2 characters and not a stop word
TermsWellFormed(keywords) ==
    \A i \in DOMAIN keywords :
        /\ keywords[i] = Lower(keywords[i])
        /\ Len(keywords[i]) > 2
        /\ keywords[i] \notin stopwords

\* no term occurs twice
TermsDistinct(keywords) ==
    \A i, j \in DOMAIN keywords : keywords[i] = keywords[j] => i = j

\* the part of C17 about the terms themselves
C17_TermsWellFormed ==
    call.fn = "extract_keywords" =>
        /\ TermsWellFormed(call.ret)
        /\ call.query = <<>> => call.ret = <<>>

\* C17: extract_keywords(query) yields a set: every term is lowercase, has
\* length > 2, is not a stop word and occurs at most once, so that the
\* divisor of the lexical score is the number of distinct keywords; an empty
\* query yields no keyword.
C17_KeywordsAreASet ==
    call.fn = "extract_keywords" =>
        /\ TermsWellFormed(call.ret)
        /\ TermsDistinct(call.ret)
        /\ call.query = <<>> => call.ret = <<>>

\* A = s[i] has the lower semantic score and its keyword_score exceeds that
\* of B = s[j] by more than (1 / keyword_boost) * (B.semantic - A.semantic)
KeywordAdvantage(s, i, j, keyword_boost) ==
    /\ semantic_score(s[i]) < semantic_score(s[j])
    /\ keyword_boost * (s[i].keyword_score - s[j].keyword_score)
           > WeightScale * (semantic_score(s[j]) - semantic_score(s[i]))

\* C15: with keyword_boost = 0.6, a candidate A with the lower semantic score
\* is ranked above B by hybrid_search whenever
\* A.keyword_score - B.keyword_score > (1 / 0.6) * (B.semantic - A.semantic).
C15_KeywordAdvantageWins ==
    SearchReturned =>
        /\ Len(hybrid_sorted) = Len(semantic_results)
        /\ \A i, j \in DOMAIN hybrid_sorted :
               KeywordAdvantage(hybrid_sorted, i, j, KeywordBoost) =>
                   /\ i < j
                   /\ hybrid_sorted[i].hybrid_score > hybrid_sorted[j].hybrid_score

\* such a pair exists among the candidates the retriever returned
C15_Witness ==
    /\ SearchReturned
    /\ top_k >= 1
    /\ \E i, j \in DOMAIN hybrid_sorted :
           /\ KeywordAdvantage(hybrid_sorted, i, j, KeywordBoost)
           /\ j <= hs_top_k
           /\ relevant_docs # <<>>

\* the content is empty or whitespace only
IsBlank(doc) == Strip(doc.content) = <<>>

\* C16: a candidate whose content is empty or whitespace-only is excluded
\* before scoring: hybrid_search gives it no keyword/hybrid score, it is not
\* passed to the reranker and it is not in the result (checked for
\* top_k >= 1).
C16_BlankContentExcluded ==
    top_k >= 1 =>
        /\ \A i \in DOMAIN hybrid_sorted : ~IsBlank(hybrid_sorted[i])
        /\ \A i \in DOMAIN documents : ~IsBlank(documents[i])
        /\ \A i \in DOMAIN relevant_docs : ~IsBlank(relevant_docs[i])

\* relevant_docs is the list hybrid_search returned to query
HybridOutputHeld == SearchReturned /\ "rerank" \notin calls

\* position in the retrieved pool of the candidate with this id
PoolPosition(id) ==
    CHOOSE p \in DOMAIN semantic_results : semantic_results[p].id = id

\* hybrid score of the candidate at position p of the retrieved pool, in
\* units of 1 / (WeightScale * Scale)
PoolHybridScore(p) ==
    (WeightScale - KeywordBoost) * semantic_score(semantic_results[p])
        + KeywordBoost * calculate_keyword_score(semantic_results[p].content,
                                                 extract_keywords(question))

\* pool position p sorts before pool position q: higher hybrid score, or the
\* same score and retrieved earlier
SortsBefore(p, q) ==
    \/ PoolHybridScore(p) > PoolHybridScore(q)
    \/ PoolHybridScore(p) = PoolHybridScore(q) /\ p < q

\* C20: hybrid_search scores every retrieved candidate before it truncates:
\* its output is the first top_k elements of the whole retrieved pool sorted
\* by hybrid_score descending, equal scores in retrieval order.
C20_ScoreAllThenTruncate ==
    HybridOutputHeld =>
        LET out == relevant_docs
            positions == [i \in DOMAIN out |-> PoolPosition(out[i].id)]
        IN  /\ Len(out) = Min(hs_top_k, Len(semantic_results))
            /\ \A i \in DOMAIN out :
                   /\ \E p \in DOMAIN semantic_results :
                          semantic_results[p].id = out[i].id
                   /\ out[i].content = semantic_results[positions[i]].content
                   /\ out[i].hybrid_score = PoolHybridScore(positions[i])
            /\ \A i \in 1..(Len(out) - 1) :
                   SortsBefore(positions[i], positions[i + 1])
            /\ \A p \in DOMAIN semantic_results :
                   (\A i \in DOMAIN out : positions[i] # p) =>
                       \A i \in DOMAIN out : SortsBefore(positions[i], p)

\* the output holds two candidates of equal hybrid score and leaves out a
\* candidate that was retrieved before one it keeps
C20_Witness ==
    /\ HybridOutputHeld
    /\ top_k >= 1
    /\ \E i \in 1..(Len(relevant_docs) - 1) :
           relevant_docs[i].hybrid_score = relevant_docs[i + 1].hybrid_score
    /\ \E p \in DOMAIN semantic_results :
           /\ \A i \in DOMAIN relevant_docs : relevant_docs[i].id # semantic_results[p].id
           /\ \E i \in DOMAIN relevant_docs : PoolPosition(relevant_docs[i].id) > p

\* the running call repeats the kept one and the embedding service answered
\* the same
SameRequest ==
    /\ other.pc = "returned"
    /\ question = other.question
    /\ top_k = other.top_k
    /\ query_embedding = other.query_embedding

\* both calls got their pool from the same path of the retriever
SameRetrieval ==
    /\ SameRequest
    /\ SearchReturned
    /\ "hybrid_scoring" \in other.calls
    /\ ("table_read" \in calls) = ("table_read" \in other.calls)

\* both calls have their final list, and the cross-encoder did not fail
SameReranking ==
    /\ SameRetrieval
    /\ pc \in {"generate", "returned"}
    /\ rerank_status = other.rerank_status
    /\ rerank_status # "failed"

\* C14: repeating the ranking for the same query and top_k, with the corpus
\* unchanged and the retriever and the cross-encoder answering the same,
\* yields an identical ordered result at every stage: nothing the first
\* invocation annotated or sorted in place reaches the second.
C14_RepeatIsIdentical ==
    /\ SameRetrieval =>
           /\ semantic_results = other.semantic_results
           /\ hybrid_sorted = other.hybrid_sorted
    /\ SameReranking =>
           /\ documents = other.documents
           /\ relevant_docs = other.relevant_docs
    /\ (SameReranking /\ pc = "returned" /\ result.kind = other.result.kind) =>
           result = other.result

\* the repeated call returned an answer whose order the reranker changed
C14_Witness ==
    /\ SameReranking
    /\ pc = "returned"
    /\ result.kind = "answer"
    /\ rerank_status = "ok"
    /\ Len(relevant_docs) >= 1
    /\ relevant_docs[1].id # hybrid_sorted[1].id

\* what similarity_search returns to the invocation inv when it runs alone
\* on the engine, on the path the retriever took
AlonePool(inv) ==
    IF "table_read" \in inv.calls
    THEN fallback_scan(Prefix(store, FallbackLimit), inv.query_embedding,
                       inv.requested).value
    ELSE match_documents(store, inv.query_embedding, MatchThreshold, inv.requested)

\* what hybrid_search returns to it
AloneHybrid(inv) ==
    hybrid_return(hybrid_scored(AlonePool(inv), inv.question, KeywordBoost),
                  inv.hs_top_k)

\* the invocation inv has its final list, and that list is the one it gets
\* when it runs alone
AsAlone(inv) ==
    (inv.pc \in {"generate", "returned"} /\ "hybrid_scoring" \in inv.calls) =>
        /\ inv.semantic_results = AlonePool(inv)
        /\ \E docs \in {AloneHybrid(inv)} :
               IF "rerank" \in inv.calls
               THEN \E fault \in Faults(docs) :
                        \E r \in {rerank(model, ce, inv.question, docs, inv.top_k, fault)} :
                            /\ inv.relevant_docs = r.ret
                            /\ inv.documents = r.documents
                            /\ inv.rerank_status = r.status
               ELSE inv.relevant_docs = docs
        /\ (inv.pc = "returned" /\ inv.result.kind = "answer") =>
               inv.result = Answer(inv.relevant_docs)

C19_EveryQueryReturns == (pc = "create_embedding") ~> (pc = "returned")

\* the except block of similarity_search (table read and linear scan) was entered
ScanEntered == pc = "fallback" \/ "table_read" \in calls

\* the RPC returned a response; get_document_count is called on an empty one
RpcReturnedEmpty == "get_document_count" \in calls

\* C21 as stated: the linear scan is performed only when the RPC raised;
\* when the RPC returns, with any number of results including zero,
\* similarity_search returns them and performs no scan.
C21_ScanOnlyAfterError == ScanEntered => ~RpcReturnedEmpty

\* C21 amended: the scan is performed only when the RPC raised, or when it
\* returned zero results while the table holds documents; when the RPC
\* returns at least one result, or none from an empty table,
\* similarity_search returns the response and performs no scan.
C21_ScanAfterErrorOrEmpty ==
    /\ (ScanEntered /\ RpcReturnedEmpty) =>
           /\ match_documents(store, query_embedding, MatchThreshold, requested) = <<>>
           /\ Len(store) > 0
    /\ (SearchReturned /\ ~ScanEntered) =>
           /\ semantic_results =
                  match_documents(store, query_embedding, MatchThreshold, requested)
           /\ RpcReturnedEmpty = (semantic_results = <<>>)

\* the RPC returned nothing and the scan it forced found candidates
C21_Witness ==
    /\ RpcReturnedEmpty
    /\ "table_read" \in calls
    /\ SearchReturned
    /\ semantic_results # <<>>

SecondRunWithoutFailure ==
    /\ call.fn = "index_documents"
    /\ call.run >= 2
    /\ ~call.force_reindex
    /\ call.previous_complete
    /\ call.complete

\* C23: index_documents(force_reindex=False) adds no chunk for a file whose
\* hash is already in the store: the second of two runs in a row, with the
\* PDF files unchanged and no insert failure, leaves the store unchanged and
\* returns (0, 0).
C23_SecondRunAddsNothing ==
    SecondRunWithoutFailure =>
        /\ store = call.before
        /\ call.ret = <<0, 0>>

\* the same, for the runs in which every query of check_file_exists succeeds
C23_WhenChecksSucceed ==
    (SecondRunWithoutFailure /\ \A i \in DOMAIN PdfFiles : call.checks_ok[i]) =>
        /\ store = call.before
        /\ call.ret = <<0, 0>>

\* the chunk of index i (from 0) of the file is stored
ChunkStored(file, i) ==
    \E r \in DOMAIN store :
        /\ store[r].metadata.file_hash = file.file_hash
        /\ store[r].metadata.chunk_index = i
        /\ store[r].content = file.chunks[i + 1]

\* C24: after any run of index_documents, also one in which a batch insert
\* fails part-way, check_file_exists(file_hash) is true only if all
\* non-empty chunks of the file are stored.
C24_NoPartialFile ==
    call.fn = "index_documents" =>
        \A f \in DOMAIN PdfFiles :
            check_file_exists(store, PdfFiles[f].file_hash, TRUE) =>
                \A i \in DOMAIN PdfFiles[f].chunks :
                    Strip(PdfFiles[f].chunks[i]) # <<>> => ChunkStored(PdfFiles[f], i - 1)

\* the same, for the runs in which no insert and no embedding fails
C24_WhenNothingFails ==
    (call.fn = "index_documents" /\ call.complete /\ call.previous_complete) =>
        \A f \in DOMAIN PdfFiles :
            check_file_exists(store, PdfFiles[f].file_hash, TRUE) =>
                \A i \in DOMAIN PdfFiles[f].chunks :
                    Strip(PdfFiles[f].chunks[i]) # <<>> => ChunkStored(PdfFiles[f], i - 1)

\* user and assistant messages alternate, starting with a user message
Alternating ==
    \A i \in DOMAIN messages :
        messages[i].role = IF i % 2 = 1 THEN "user" ELSE "assistant"

\* the step appends one message to the history or empties it
AppendsOrClears ==
    \/ messages' = messages
    \/ messages' = <<>>
    \/ \E q \in Questions : messages' = Append(messages, UserMessage(q))
    \/ /\ result.kind \in {"answer", "no_info", "raised"}
       /\ messages' = Append(messages, AssistantMessage(result))

\* C25: every user message appended to the history is followed by exactly
\* one assistant message before the next user message (the answer with its
\* sources, or an error message with no sources), and the history changes in
\* no other way except being emptied.
C25_OneReplyPerMessage ==
    /\ [](Alternating /\ (Len(messages) % 2 = 1 => pc # "idle"))
    /\ [][AppendsOrClears]_vars

\* the candidate as the retriever returned it: doc without the fields the
\* ranking stages add
AsRetrieved(doc) ==
    [f \in DOMAIN doc \ {"hybrid_score", "keyword_score", "rerank_score"} |-> doc[f]]

\* how many elements of list are the candidate c of the retrieved pool
TimesIn(list, c) ==
    Cardinality({i \in DOMAIN list : AsRetrieved(list[i]) = c})

\* C26: the list hybrid_search returns, and the list rerank returns on it,
\* holds only candidates of the pool the retriever returned for the call,
\* each at most as often as the pool holds it, with content and metadata
\* as retrieved and with keyword_score and hybrid_score set.
C26_NoInventedCandidates ==
    SearchReturned =>
        \A i \in DOMAIN relevant_docs :
            LET doc == relevant_docs[i]
                c == AsRetrieved(doc)
            IN  /\ {"keyword_score", "hybrid_score"} \subseteq DOMAIN doc
                /\ \E p \in DOMAIN semantic_results :
                       /\ semantic_results[p] = c
                       /\ semantic_results[p].content = doc.content
                       /\ semantic_results[p].metadata = doc.metadata
                /\ TimesIn(relevant_docs, c) <= TimesIn(semantic_results, c)

\* rerank returned a reordered part of a larger pool
C26_Witness ==
    /\ pc = "generate"
    /\ rerank_status = "ok"
    /\ relevant_docs # <<>>
    /\ Len(relevant_docs) < Len(semantic_results)
    /\ Len(hybrid_sorted) > 1
    /\ relevant_docs[1].id = hybrid_sorted[Len(hybrid_sorted)].id
    /\ relevant_docs[1].id # semantic_results[1].id

\* C1: for top_k >= 1 and in both reranker states, the chunk list that
\* grounds the answer has at most top_k elements.
C1_AtMostTopK ==
    (Grounding /\ top_k >= 1) => Len(relevant_docs) <= top_k

\* C2: the chunk list is non-increasing in the score of the last stage that
\* ran: rerank_score when rerank completed successfully, hybrid_score
\* otherwise; after a successful rerank the candidate with the highest
\* cross-encoder score is first.
C2_OrderedByLastStage ==
    Grounding =>
        IF rerank_status = "ok"
        THEN /\ NonIncreasing(RerankScoresOf(relevant_docs))
             /\ relevant_docs # <<>> =>
                    \A i \in DOMAIN documents :
                        relevant_docs[1].rerank_score >= documents[i].rerank_score
        ELSE NonIncreasing(HybridScoresOf(relevant_docs))

\* C3: with the reranker Unavailable, the chunk list used by query(question, k),
\* k >= 1, is exactly the first k elements of the hybrid-sorted candidate list.
C3_UnavailableIsHybridTopK ==
    (Grounding /\ model = "None" /\ top_k >= 1) =>
        relevant_docs = Prefix(hybrid_sorted, top_k)

\* C4: when an exception is raised inside rerank, the list returned is the
\* first top_k documents in their pre-rerank (hybrid) order.
C4_FailedRerankKeepsHybridOrder ==
    (Grounding /\ rerank_status = "failed") =>
        Ids(relevant_docs) = Ids(Prefix(hybrid_return(hybrid_sorted, hs_top_k), top_k))

\* C5: reranker availability is fixed at construction: no step of any query
\* changes it, a query reranks only when the model was loaded, and a rerank
\* call that fails leaves the reranker Ready.
C5_AvailabilityFixed ==
    [][/\ model' = model
       /\ "rerank" \in calls' => model = "Loaded"
       /\ rerank_status' = "failed" => model' = "Loaded"]_vars

\* a rerank call failed and the reranker is still Ready when query returns
C5_Witness ==
    /\ pc = "returned"
    /\ rerank_status = "failed"
    /\ model = "Loaded"

\* C6: a failure of the query-embedding call or of the fallback table read
\* never propagates as an exception out of query (checked for top_k >= 1).
C6_RetrievalFailureNotRaised ==
    (pc = "returned" /\ result.kind = "raised" /\ top_k >= 1) =>
        result.at \notin {"create_embedding", "table_read"}

\* C7: when the retriever returns zero candidates, query returns the
\* 'no relevant information' answer with empty sources, raises nothing and
\* invokes neither the reranker nor the answer generator.
C7_EmptyRetrievalIsNoInfo ==
    (SearchReturned /\ semantic_results = <<>>) =>
        /\ pc = "returned"
        /\ result = NoInfo
        /\ calls \cap {"rerank", "generate"} = {}

\* the retriever returned zero candidates on an empty corpus
C7_Witness ==
    /\ SearchReturned
    /\ semantic_results = <<>>
    /\ store = <<>>
    /\ pc = "returned"

\* C8: with top_k = 0 the pipeline returns an empty result and invokes no
\* stage after retrieval, in both reranker states.
C8_TopKZeroStopsAfterRetrieval ==
    (SearchEntered /\ top_k = 0) =>
        /\ calls \cap {"rerank", "generate"} = {}
        /\ pc \notin {"rerank", "generate"}
        /\ (pc = "returned" /\ result.kind # "raised") => result.sources = <<>>

\* C9 as stated: the number of candidates requested from similarity_search
\* is exactly 2 * top_k (checked for top_k >= 1).
C9_RequestsTwiceTopK ==
    (SearchEntered /\ top_k >= 1) => requested = 2 * top_k

\* C9 as amended: the number of candidates requested from similarity_search
\* is exactly 4 * top_k (query asks hybrid_search for 2 * top_k and
\* hybrid_search doubles it), and 2 * 20 when top_k is 0.
C9_RequestsFourTimesTopK ==
    SearchEntered =>
        requested = IF top_k = 0 THEN 2 * DefaultTopK ELSE 4 * top_k

\* similarity_search was called for a query with top_k = 2
C9_Witness ==
    /\ SearchEntered
    /\ top_k = 2
    /\ "rpc" \in calls

\* the embedding of a stored row is not a numeric vector of the query's
\* dimension: non-numeric elements, an unparsable string, or another dimension
Malformed(e, qe) ==
    \/ e.kind = "str" /\ e.json = "invalid"
    \/ e.kind \in {"list", "str"} /\ "value" \in DOMAIN e
          /\ (e.nonnumeric # {} \/ Len(e.value) # Len(qe))

RowOf(id) == store[CHOOSE i \in DOMAIN store : store[i].id = id]

\* C10: in the fallback scan a record whose embedding is malformed gets
\* similarity 0 and the scan goes on: it never aborts the scan
\* (checked for top_k >= 1).
C10_MalformedScoresZero ==
    top_k >= 1 =>
    /\ (pc = "returned" /\ result.kind = "raised") => result.at # "cosine_similarity"
    /\ ("table_read" \in calls /\ SearchReturned) =>
           \A i \in DOMAIN semantic_results :
               Malformed(RowOf(semantic_results[i].id).embedding, query_embedding)
                   => semantic_results[i].similarity = 0

====
